---- MODULE Spec2Model ----
(***************************************************************************)
(* Folder tree engine and document lifecycle of the DMS backend.           *)
(*                                                                         *)
(* State: the Folder and Document collections of the metadata store, the   *)
(* object-id generators, and the outcome of the last service call.         *)
(* Strings (names, paths) are sequences of one-character strings so that   *)
(* prefix tests, substring and split are computed as the code computes     *)
(* them.  Every action is one whole service call: the code awaits each     *)
(* store call in turn, and the requests are run one at a time.             *)
(***************************************************************************)
EXTENDS Integers, Sequences, FiniteSets, TLC

\* ---------------------------------------------------------------- bounds
MaxFolders == 2          \* folder records created by requests (all but SpecChain, SpecDeep)
MaxDocs == 1             \* document records ever created (SpecDocs, SpecTrash, SpecFiled)
DepthCap == 3            \* moves that would store a larger depth are not issued (Spec)
DeepWindow == 2          \* SpecDeep moves folders within this distance of the depth limit
PoolSize == 1            \* workers the PDF pool is configured with (SpecPool)
MaxTasks == 2            \* split / getInfo tasks submitted to the pool (SpecPool)

\* ------------------------------------------------------ program constants
MAX_FOLDER_DEPTH == 50
NULL == 0
\* Folder.deletedAt is null or the time of the soft delete; the model keeps
\* one value for every such time.
DeletedAtTime == "now"

Owners == {"u1", "u2"}
TreeOwners == {"u1"}

\* Folder names the requests carry.  CaseNames differ by letter case only;
\* RegexNames hold a regular-expression metacharacter, and "a" is a string
\* prefix of "a+".
CaseNames == { <<"a">>, <<"A">> }
RegexNames == { <<"a">>, <<"a", "+">>, <<"A", "+">> }

\* Error codes of the service calls ("OK" = the call returned normally).
OK == "OK"
NOT_FOUND == "NOT_FOUND"
FOLDER_NAME_EXISTS == "FOLDER_NAME_EXISTS"
FOLDER_MAX_DEPTH_EXCEEDED == "FOLDER_MAX_DEPTH_EXCEEDED"
FOLDER_MOVE_INTO_SELF == "FOLDER_MOVE_INTO_SELF"
FOLDER_PARENT_DELETED == "FOLDER_PARENT_DELETED"
DUPLICATE_KEY == "E11000"
SCHEMA_VALIDATION == "SCHEMA_VALIDATION"

VARIABLES folders, nextFolderId, docs, nextDocId, last, requests,
          pool, threads, promises

\* requests: the FolderService calls in flight, one per slot, each with its
\* position and its local variables.
raceVars == <<requests>>

\* pool: the fields of the PdfWorkerPool object; threads: the worker threads
\* it has started; promises: the promise of every task handed to execute.
poolVars == <<pool, threads, promises>>

storeVars == <<folders, nextFolderId, docs, nextDocId, last>>

vars == <<folders, nextFolderId, docs, nextDocId, last, requests,
          pool, threads, promises>>

\* ------------------------------------------------------- string helpers
Slash == "/"

StartsWith(s, p) == Len(p) <= Len(s) /\ SubSeq(s, 1, Len(p)) = p

\* JS String.prototype.lastIndexOf('/'): 0-based index, -1 when absent.
LastIndexOfSlash(s) ==
    LET idx == { i \in 1..Len(s) : s[i] = Slash }
    IN  IF idx = {} THEN -1 ELSE (CHOOSE i \in idx : \A j \in idx : j <= i) - 1

\* JS substring(0, n)
SubstringTo(s, n) == SubSeq(s, 1, n)

\* Mongo {$substr: [s, n, -1]}: the rest of s from 0-based offset n.
SubstrFrom(s, n) == SubSeq(s, n + 1, Len(s))

\* JS path.split('/').filter(Boolean): the non-empty segments, in order.
RECURSIVE SplitPath(_, _)
SplitPath(s, cur) ==
    IF s = <<>> THEN (IF cur = <<>> THEN <<>> ELSE <<cur>>)
    ELSE IF Head(s) = Slash
         THEN (IF cur = <<>> THEN <<>> ELSE <<cur>>) \o SplitPath(Tail(s), <<>>)
         ELSE SplitPath(Tail(s), Append(cur, Head(s)))

ToLower(c) == CASE c = "A" -> "a" [] c = "B" -> "b" [] OTHER -> c

\* new RegExp(`^${p}$`, 'i').test(s) for a pattern p made of literal
\* characters and the postfix quantifier "+" (one or more of the previous
\* character); the name is embedded in the pattern unescaped.
RECURSIVE RegExpTest(_, _)
RegExpTest(p, s) ==
    IF p = <<>> THEN s = <<>>
    ELSE IF Len(p) >= 2 /\ p[2] = "+"
         THEN \E k \in 1..Len(s) :
                 /\ \A i \in 1..k : ToLower(s[i]) = ToLower(p[1])
                 /\ RegExpTest(SubSeq(p, 3, Len(p)), SubSeq(s, k + 1, Len(s)))
         ELSE /\ s # <<>>
              /\ ToLower(s[1]) = ToLower(p[1])
              /\ RegExpTest(Tail(p), Tail(s))

\* Variant of PathRegex without the trailing "/" in the pattern.
PathRegexNoSlash(prefix, path) == StartsWith(path, prefix)

\* {path: {$regex: `^${escaped(prefix)}/`}}: every metacharacter of prefix
\* is escaped, so the filter is a literal prefix test on prefix + "/".
PathRegex(prefix, path) == StartsWith(path, Append(prefix, Slash))

\* ------------------------------------------------------- store helpers
Ids(fs) == DOMAIN fs

Remove(f, S) == [x \in (DOMAIN f) \ S |-> f[x]]

Put(f, k, v) == [x \in (DOMAIN f) \cup {k} |-> IF x = k THEN v ELSE f[x]]

MaxOf(S) == CHOOSE x \in S : \A y \in S : y <= x

\* FolderSchema.index({ownerId, parentId, name}, {unique: true}): would the
\* record id, written with (ownerId, parentId, name), collide with another
\* record (deleted or not)?
UniqueIndexViolated(fs, id, ownerId, parentId, name) ==
    \E g \in Ids(fs) : /\ g # id
                       /\ fs[g].ownerId = ownerId
                       /\ fs[g].parentId = parentId
                       /\ fs[g].name = name

\* Schema validators run by FolderModel.create (not by updateOne/updateMany).
SchemaValid(name, depth) ==
    /\ Len(name) >= 1 /\ Len(name) <= 255
    /\ depth >= 0 /\ depth <= MAX_FOLDER_DEPTH

\* Variant of ActiveFolder that also finds soft-deleted folders.
AnyFolder(fs, id, ownerId) == id \in Ids(fs) /\ fs[id].ownerId = ownerId

\* FolderModel.findOne({_id, ownerId, isDeleted: false})
ActiveFolder(fs, id, ownerId) ==
    id \in Ids(fs) /\ fs[id].ownerId = ownerId /\ ~fs[id].isDeleted

\* Descendants by materialized path: the owner's folders whose path starts
\* with path + "/" (any deletion state).
PathDescendants(fs, ownerId, path) ==
    { g \in Ids(fs) : fs[g].ownerId = ownerId /\ PathRegex(path, fs[g].path) }

\* ------------------------------------------------------- FolderService
\* Variant of DepthExceeded that already refuses the limit itself.
DepthExceededAtLimit(depth) == depth >= MAX_FOLDER_DEPTH

\* generatePath: if (depth > MAX_FOLDER_DEPTH) throw FOLDER_MAX_DEPTH_EXCEEDED
DepthExceeded(depth) == depth > MAX_FOLDER_DEPTH

generatePath(fs, ownerId, parentId, name) ==
    IF parentId = NULL
    THEN [err |-> OK, path |-> <<Slash>> \o name, depth |-> 0]
    ELSE IF ~ActiveFolder(fs, parentId, ownerId)
    THEN [err |-> NOT_FOUND, path |-> <<>>, depth |-> 0]
    ELSE IF DepthExceeded(fs[parentId].depth + 1)
    THEN [err |-> FOLDER_MAX_DEPTH_EXCEEDED, path |-> <<>>, depth |-> 0]
    ELSE [err |-> OK,
          path |-> fs[parentId].path \o <<Slash>> \o name,
          depth |-> fs[parentId].depth + 1]

\* TRUE when the lookup finds a sibling, i.e. when ConflictError is thrown.
checkUniqueName(fs, ownerId, parentId, name, excludeId) ==
    \E g \in Ids(fs) :
        /\ fs[g].ownerId = ownerId
        /\ fs[g].parentId = parentId
        /\ RegExpTest(name, fs[g].name)
        /\ ~fs[g].isDeleted
        /\ (excludeId # NULL => g # excludeId)

create(fs, newId, ownerId, name, parentId) ==
    IF checkUniqueName(fs, ownerId, parentId, name, NULL)
    THEN [err |-> FOLDER_NAME_EXISTS, fs |-> fs]
    ELSE LET gp == generatePath(fs, ownerId, parentId, name)
         IN  IF gp.err # OK THEN [err |-> gp.err, fs |-> fs]
             ELSE IF ~SchemaValid(name, gp.depth)
             THEN [err |-> SCHEMA_VALIDATION, fs |-> fs]
             ELSE IF UniqueIndexViolated(fs, newId, ownerId, parentId, name)
             THEN [err |-> DUPLICATE_KEY, fs |-> fs]
             ELSE [err |-> OK,
                   fs |-> Put(fs, newId,
                              [name |-> name, parentId |-> parentId,
                               ownerId |-> ownerId, path |-> gp.path,
                               depth |-> gp.depth, isDeleted |-> FALSE,
                               deletedAt |-> NULL])]

\* The while loop of getBreadcrumbs from folder current on, with the ids
\* unshifted so far in crumbs (root end first).  The loop reads nothing but
\* the current folder, so reaching a folder a second time means it never
\* ends: terminates = FALSE.
RECURSIVE BreadcrumbLoop(_, _, _, _)
BreadcrumbLoop(fs, ownerId, current, crumbs) ==
    IF \E i \in 1..Len(crumbs) : crumbs[i] = current
    THEN [terminates |-> FALSE, crumbs |-> crumbs]
    ELSE LET unshifted == <<current>> \o crumbs
             parentId == fs[current].parentId
         IN  IF parentId # NULL /\ ActiveFolder(fs, parentId, ownerId)
             THEN BreadcrumbLoop(fs, ownerId, parentId, unshifted)
             ELSE [terminates |-> TRUE, crumbs |-> unshifted]

getBreadcrumbs(fs, folderId, ownerId) ==
    IF ~ActiveFolder(fs, folderId, ownerId)
    THEN [err |-> NOT_FOUND, terminates |-> TRUE, crumbs |-> <<>>]
    ELSE LET r == BreadcrumbLoop(fs, ownerId, folderId, <<>>)
         IN  [err |-> OK, terminates |-> r.terminates, crumbs |-> r.crumbs]

\* Variant of CascadePaths that leaves the descendants as they are.
NoCascade(fs, ownerId, oldPath, newPath, depthIncrease) == fs

\* The bulk update of the descendants: prefix replacement of the path and
\* an addition to the depth (0 for a rename).
CascadePaths(fs, ownerId, oldPath, newPath, depthIncrease) ==
    [g \in Ids(fs) |->
        IF fs[g].ownerId = ownerId /\ PathRegex(oldPath, fs[g].path)
        THEN [fs[g] EXCEPT !.path = newPath \o SubstrFrom(fs[g].path, Len(oldPath)),
                           !.depth = fs[g].depth + depthIncrease]
        ELSE fs[g]]

updatePathsForRename(fs, id, newName) ==
    LET oldPath == fs[id].path
        parentPath == SubstringTo(oldPath, LastIndexOfSlash(oldPath))
        newPath == IF parentPath # <<>> THEN parentPath \o <<Slash>> \o newName
                   ELSE <<Slash>> \o newName
    IN  IF UniqueIndexViolated(fs, id, fs[id].ownerId, fs[id].parentId, newName)
        THEN [err |-> DUPLICATE_KEY, fs |-> fs]
        ELSE [err |-> OK,
              fs |-> CascadePaths([fs EXCEPT ![id].path = newPath, ![id].name = newName],
                                  fs[id].ownerId, oldPath, newPath, 0)]

update(fs, id, ownerId, name) ==
    IF ~ActiveFolder(fs, id, ownerId) THEN [err |-> NOT_FOUND, fs |-> fs]
    ELSE IF name = fs[id].name THEN [err |-> OK, fs |-> fs]
    ELSE IF checkUniqueName(fs, ownerId, fs[id].parentId, name, id)
    THEN [err |-> FOLDER_NAME_EXISTS, fs |-> fs]
    ELSE updatePathsForRename(fs, id, name)

\* move: targetParent.path.startsWith(folder.path + '/')
TargetIsDescendant(folderPath, targetPath) ==
    StartsWith(targetPath, Append(folderPath, Slash))

\* Variant of getMaxDescendantDepth that looks at the folder alone.
OwnDepth(fs, id) == fs[id].depth

\* The depth of the deepest folder below the folder's path, or the folder's
\* own depth when nothing is below it.
getMaxDescendantDepth(fs, id) ==
    LET ds == PathDescendants(fs, fs[id].ownerId, fs[id].path)
    IN  IF ds = {} THEN fs[id].depth ELSE MaxOf({ fs[g].depth : g \in ds })

move(fs, id, ownerId, newParentId) ==
    IF ~ActiveFolder(fs, id, ownerId) THEN [err |-> NOT_FOUND, fs |-> fs]
    ELSE IF fs[id].parentId = newParentId THEN [err |-> OK, fs |-> fs]
    ELSE IF newParentId # NULL /\ ~ActiveFolder(fs, newParentId, ownerId)
    THEN [err |-> NOT_FOUND, fs |-> fs]
    ELSE IF newParentId # NULL
            /\ TargetIsDescendant(fs[id].path, fs[newParentId].path)
    THEN [err |-> FOLDER_MOVE_INTO_SELF, fs |-> fs]
    ELSE IF checkUniqueName(fs, ownerId, newParentId, fs[id].name, id)
    THEN [err |-> FOLDER_NAME_EXISTS, fs |-> fs]
    ELSE LET gp == generatePath(fs, ownerId, newParentId, fs[id].name)
             depthIncrease == gp.depth - fs[id].depth
         IN  IF gp.err # OK THEN [err |-> gp.err, fs |-> fs]
             ELSE IF getMaxDescendantDepth(fs, id) + depthIncrease > MAX_FOLDER_DEPTH
             THEN [err |-> FOLDER_MAX_DEPTH_EXCEEDED, fs |-> fs]
             ELSE IF UniqueIndexViolated(fs, id, ownerId, newParentId, fs[id].name)
             THEN [err |-> DUPLICATE_KEY, fs |-> fs]
             ELSE [err |-> OK,
                   fs |-> CascadePaths([fs EXCEPT ![id].parentId = newParentId,
                                                  ![id].path = gp.path,
                                                  ![id].depth = gp.depth],
                                       ownerId, fs[id].path, gp.path, depthIncrease)]

\* Variant of SubtreeIds that holds the folder alone.
FolderAlone(fs, id, ownerId, path) == {id}

\* FolderModel.find({ownerId, $or: [{_id: id}, {path: {$regex}}]}).distinct('_id')
SubtreeIds(fs, id, ownerId, path) ==
    { g \in Ids(fs) : /\ fs[g].ownerId = ownerId
                      /\ (g = id \/ PathRegex(path, fs[g].path)) }

softDelete(fs, ds, id, ownerId) ==
    IF ~ActiveFolder(fs, id, ownerId) THEN [err |-> NOT_FOUND, fs |-> fs, ds |-> ds]
    ELSE LET path == fs[id].path
             fs1 == [fs EXCEPT ![id].isDeleted = TRUE, ![id].deletedAt = DeletedAtTime]
             fs2 == [g \in Ids(fs1) |->
                        IF /\ fs1[g].ownerId = ownerId
                           /\ PathRegex(path, fs1[g].path)
                           /\ ~fs1[g].isDeleted
                        THEN [fs1[g] EXCEPT !.isDeleted = TRUE,
                                            !.deletedAt = DeletedAtTime]
                        ELSE fs1[g]]
             folderIds == SubtreeIds(fs2, id, ownerId, path)
         IN  [err |-> OK, fs |-> fs2,
              ds |-> [d \in DOMAIN ds |->
                        IF /\ ds[d].ownerId = ownerId
                           /\ ds[d].folderId \in folderIds
                           /\ ~ds[d].isDeleted
                        THEN [ds[d] EXCEPT !.isDeleted = TRUE]
                        ELSE ds[d]]]

\* Variant of ParentUnavailable that only asks whether the parent exists.
ParentAbsent(fs, id, ownerId) ==
    /\ fs[id].parentId # NULL
    /\ ~(fs[id].parentId \in Ids(fs) /\ fs[fs[id].parentId].ownerId = ownerId)

\* restore: folder.parentId set and no non-deleted parent of the owner found
ParentUnavailable(fs, id, ownerId) ==
    fs[id].parentId # NULL /\ ~ActiveFolder(fs, fs[id].parentId, ownerId)

\* Variant of RestoreOne that restores the folders below as well.
RestoreSubtree(fs, id) ==
    [g \in Ids(fs) |->
        IF g = id \/ (fs[g].ownerId = fs[id].ownerId /\ PathRegex(fs[id].path, fs[g].path))
        THEN [fs[g] EXCEPT !.isDeleted = FALSE, !.deletedAt = NULL]
        ELSE fs[g]]

\* FolderModel.findByIdAndUpdate(id, {$set: {isDeleted: false, deletedAt: null}})
RestoreOne(fs, id) == [fs EXCEPT ![id].isDeleted = FALSE, ![id].deletedAt = NULL]

restore(fs, id, ownerId) ==
    IF ~(id \in Ids(fs) /\ fs[id].ownerId = ownerId /\ fs[id].isDeleted)
    THEN [err |-> NOT_FOUND, fs |-> fs]
    ELSE IF ParentUnavailable(fs, id, ownerId)
    THEN [err |-> FOLDER_PARENT_DELETED, fs |-> fs]
    ELSE [err |-> OK, fs |-> RestoreOne(fs, id)]

permanentDelete(fs, ds, id, ownerId) ==
    IF ~(id \in Ids(fs) /\ fs[id].ownerId = ownerId)
    THEN [err |-> NOT_FOUND, fs |-> fs, ds |-> ds,
          foldersDeleted |-> 0, documentsDeleted |-> 0]
    ELSE LET path == fs[id].path
             folderIds == SubtreeIds(fs, id, ownerId, path)
         IN  [err |-> OK,
              foldersDeleted |-> Cardinality(folderIds),
              documentsDeleted |->
                 Cardinality({ d \in DOMAIN ds : /\ ds[d].ownerId = ownerId
                                                  /\ ds[d].folderId \in folderIds }),
              fs |-> Remove(fs, folderIds),
              ds |-> [d \in DOMAIN ds |->
                        IF ds[d].ownerId = ownerId /\ ds[d].folderId \in folderIds
                        THEN [ds[d] EXCEPT !.folderId = NULL]
                        ELSE ds[d]]]

\* ------------------------------------------------------ DocumentService
NoFolderInfo == [present |-> FALSE, folderId |-> NULL, name |-> <<>>,
                 path |-> <<>>, parentId |-> NULL]

uploadDirect(ds, newId, ownerId, folderId) ==
    Put(ds, newId, [folderId |-> folderId, ownerId |-> ownerId,
                    isDeleted |-> FALSE, deletedFolderInfo |-> NoFolderInfo])

docUpdate(ds, id, ownerId, folderId) ==
    IF ~(id \in DOMAIN ds /\ ds[id].ownerId = ownerId /\ ~ds[id].isDeleted)
    THEN [err |-> NOT_FOUND, ds |-> ds]
    ELSE [err |-> OK, ds |-> [ds EXCEPT ![id].folderId = folderId]]

\* Variant of SnapshotOf that records no parent.
SnapshotWithoutParent(fs, fid) ==
    [present |-> TRUE, folderId |-> fid, name |-> fs[fid].name,
     path |-> fs[fid].path, parentId |-> NULL]

\* deletedFolderInfo = {folderId, name, path, parentId} of the folder found
SnapshotOf(fs, fid) ==
    [present |-> TRUE, folderId |-> fid, name |-> fs[fid].name,
     path |-> fs[fid].path, parentId |-> fs[fid].parentId]

docSoftDelete(fs, ds, id, ownerId) ==
    IF ~(id \in DOMAIN ds /\ ds[id].ownerId = ownerId /\ ~ds[id].isDeleted)
    THEN [err |-> NOT_FOUND, ds |-> ds]
    ELSE LET fid == ds[id].folderId
             info == IF fid # NULL /\ fid \in Ids(fs)
                     THEN SnapshotOf(fs, fid)
                     ELSE NoFolderInfo
         IN  [err |-> OK,
              ds |-> [ds EXCEPT ![id].isDeleted = TRUE,
                                ![id].deletedFolderInfo = info]]

\* Variant of FindByPath that never finds a folder.
FindNoFolder(fs, ownerId, path) == NULL

\* FolderModel.findOne({ownerId, path}): a folder of the owner at that exact
\* path, in any deletion state (the first in insertion order), or NULL.
FindByPath(fs, ownerId, path) ==
    LET hits == { g \in Ids(fs) : fs[g].ownerId = ownerId /\ fs[g].path = path }
    IN  IF hits = {} THEN NULL ELSE CHOOSE g \in hits : \A h \in hits : g <= h

\* The loop of recreateFolderFromInfo from segment i (1-based) on.  A failed
\* FolderModel.create throws into the catch block: the result folder is NULL
\* and the records created by the earlier iterations stay.
RECURSIVE RecreateLoop(_, _, _, _, _, _, _)
RecreateLoop(fs, nid, ownerId, parts, i, parentId, currentPath) ==
    IF i > Len(parts) THEN [fs |-> fs, nid |-> nid, folder |-> parentId]
    ELSE LET folderName == parts[i]
             path == currentPath \o <<Slash>> \o folderName
             found == FindByPath(fs, ownerId, path)
         IN  IF found # NULL
             THEN RecreateLoop(fs, nid, ownerId, parts, i + 1, found, path)
             ELSE IF \/ ~SchemaValid(folderName, i - 1)
                     \/ UniqueIndexViolated(fs, nid, ownerId, parentId, folderName)
             THEN [fs |-> fs, nid |-> nid, folder |-> NULL]
             ELSE RecreateLoop(Put(fs, nid,
                                   [name |-> folderName, parentId |-> parentId,
                                    ownerId |-> ownerId, path |-> path,
                                    depth |-> i - 1, isDeleted |-> FALSE,
                                    deletedAt |-> NULL]),
                               nid + 1, ownerId, parts, i + 1, nid, path)

\* Variant of recreateFolderFromInfo that, when the loop fails, answers the
\* folder at the first segment of the path.
RecreateOrFirstSegment(fs, nid, ownerId, folderInfo) ==
    LET pathParts == SplitPath(folderInfo.path, <<>>)
        r == RecreateLoop(fs, nid, ownerId, pathParts, 1, NULL, <<>>)
    IN  IF Len(pathParts) = 0 THEN [fs |-> fs, nid |-> nid, folder |-> NULL]
        ELSE IF r.folder # NULL THEN r
        ELSE [r EXCEPT !.folder = FindByPath(r.fs, ownerId, <<Slash>> \o pathParts[1])]

\* The whole body runs inside try/catch: any failure answers null.
recreateFolderFromInfo(fs, nid, ownerId, folderInfo) ==
    LET pathParts == SplitPath(folderInfo.path, <<>>)
    IN  IF Len(pathParts) = 0 THEN [fs |-> fs, nid |-> nid, folder |-> NULL]
        ELSE RecreateLoop(fs, nid, ownerId, pathParts, 1, NULL, <<>>)

docRestore(fs, nid, ds, id, ownerId, recreateFolder) ==
    IF ~(id \in DOMAIN ds /\ ds[id].ownerId = ownerId /\ ds[id].isDeleted)
    THEN [err |-> NOT_FOUND, fs |-> fs, nid |-> nid, ds |-> ds, folderRecreated |-> FALSE]
    ELSE LET info == ds[id].deletedFolderInfo
             exists(fid) == fid \in Ids(fs) /\ fs[fid].ownerId = ownerId
             rec == IF info.present /\ ~exists(info.folderId) /\ recreateFolder
                    THEN recreateFolderFromInfo(fs, nid, ownerId, info)
                    ELSE [fs |-> fs, nid |-> nid, folder |-> NULL]
             folderId ==
                IF info.present
                THEN (IF exists(info.folderId) THEN info.folderId ELSE rec.folder)
                ELSE IF ds[id].folderId # NULL /\ exists(ds[id].folderId)
                     THEN ds[id].folderId
                     ELSE NULL
         IN  [err |-> OK, fs |-> rec.fs, nid |-> rec.nid,
              ds |-> [ds EXCEPT ![id].isDeleted = FALSE,
                                ![id].deletedFolderInfo = NoFolderInfo,
                                ![id].folderId = folderId],
              folderRecreated |-> (rec.folder # NULL)]

\* ------------------------------------------------------------ the system
EmptyFn == [x \in {} |-> 0]

\* The PdfWorkerPool as constructed: no worker, no task, no job.  jobs maps
\* a job to its status; the task and job counters advance together (one
\* task and one job per split or getInfo), so one number names both.
NewPool == [workers |-> <<>>, taskQueue |-> <<>>, pendingTasks |-> {},
            jobs |-> EmptyFn, taskToJob |-> {}, taskIdCounter |-> 0,
            isShuttingDown |-> FALSE]

\* The requests served concurrently, and a slot with no call in flight.
\* doc is the folder document a move has loaded, path and depth are the
\* locals computed by generatePath; raced records that a store write of
\* one call fell between two store calls of another, served counts the
\* calls started.
Slots == {1, 2}

Idle == [op |-> "none", pc |-> "idle", err |-> OK, id |-> NULL, ownerId |-> "",
         name |-> <<>>, parentId |-> NULL, doc |-> NULL, path |-> <<>>, depth |-> 0]

Init ==
    /\ folders = EmptyFn
    /\ nextFolderId = 1
    /\ docs = EmptyFn
    /\ nextDocId = 1
    /\ last = [op |-> "init", err |-> OK, id |-> NULL]
    /\ requests = [calls |-> [s \in Slots |-> Idle], raced |-> FALSE, served |-> 0]
    /\ pool = NewPool
    /\ threads = EmptyFn
    /\ promises = EmptyFn

\* The ids a request can name: every id the store has handed out so far.
KnownFolderIds == 1..(nextFolderId - 1)
KnownDocIds == 1..(nextDocId - 1)

CreateFolder(o, name, parentId) ==
    /\ LET r == create(folders, nextFolderId, o, name, parentId)
       IN  /\ folders' = r.fs
           /\ nextFolderId' = IF r.err = OK THEN nextFolderId + 1 ELSE nextFolderId
           /\ last' = [op |-> "createFolder", err |-> r.err,
                       id |-> IF r.err = OK THEN nextFolderId ELSE NULL]
    /\ UNCHANGED <<docs, nextDocId>>
    /\ UNCHANGED <<raceVars, poolVars>>

RenameFolder(id, o, name) ==
    /\ LET r == update(folders, id, o, name)
       IN  /\ folders' = r.fs
           /\ last' = [op |-> "renameFolder", err |-> r.err, id |-> id]
    /\ UNCHANGED <<nextFolderId, docs, nextDocId>>
    /\ UNCHANGED <<raceVars, poolVars>>

MoveFolder(id, o, newParentId) ==
    /\ LET r == move(folders, id, o, newParentId)
       IN  /\ folders' = r.fs
           /\ last' = [op |-> "moveFolder", err |-> r.err, id |-> id]
    /\ UNCHANGED <<nextFolderId, docs, nextDocId>>
    /\ UNCHANGED <<raceVars, poolVars>>

SoftDeleteFolder(id, o) ==
    /\ LET r == softDelete(folders, docs, id, o)
       IN  /\ folders' = r.fs
           /\ docs' = r.ds
           /\ last' = [op |-> "softDeleteFolder", err |-> r.err, id |-> id]
    /\ UNCHANGED <<nextFolderId, nextDocId>>
    /\ UNCHANGED <<raceVars, poolVars>>

RestoreFolder(id, o) ==
    /\ LET r == restore(folders, id, o)
       IN  /\ folders' = r.fs
           /\ last' = [op |-> "restoreFolder", err |-> r.err, id |-> id]
    /\ UNCHANGED <<nextFolderId, docs, nextDocId>>
    /\ UNCHANGED <<raceVars, poolVars>>

PermanentDeleteFolder(id, o) ==
    /\ LET r == permanentDelete(folders, docs, id, o)
       IN  /\ folders' = r.fs
           /\ docs' = r.ds
           /\ last' = [op |-> "permanentDeleteFolder", err |-> r.err, id |-> id]
    /\ UNCHANGED <<nextFolderId, nextDocId>>
    /\ UNCHANGED <<raceVars, poolVars>>

UploadDocument(o, folderId) ==
    /\ docs' = uploadDirect(docs, nextDocId, o, folderId)
    /\ nextDocId' = nextDocId + 1
    /\ last' = [op |-> "uploadDocument", err |-> OK, id |-> nextDocId]
    /\ UNCHANGED <<folders, nextFolderId>>
    /\ UNCHANGED <<raceVars, poolVars>>

MoveDocument(id, o, folderId) ==
    /\ LET r == docUpdate(docs, id, o, folderId)
       IN  /\ docs' = r.ds
           /\ last' = [op |-> "moveDocument", err |-> r.err, id |-> id]
    /\ UNCHANGED <<folders, nextFolderId, nextDocId>>
    /\ UNCHANGED <<raceVars, poolVars>>

SoftDeleteDocument(id, o) ==
    /\ LET r == docSoftDelete(folders, docs, id, o)
       IN  /\ docs' = r.ds
           /\ last' = [op |-> "softDeleteDocument", err |-> r.err, id |-> id]
    /\ UNCHANGED <<folders, nextFolderId, nextDocId>>
    /\ UNCHANGED <<raceVars, poolVars>>

RestoreDocument(id, o, recreateFolder) ==
    /\ LET r == docRestore(folders, nextFolderId, docs, id, o, recreateFolder)
       IN  /\ folders' = r.fs
           /\ nextFolderId' = r.nid
           /\ docs' = r.ds
           /\ last' = [op |-> "restoreDocument", err |-> r.err, id |-> id]
    /\ UNCHANGED nextDocId
    /\ UNCHANGED <<raceVars, poolVars>>

\* ------------------------------------- FolderService calls, interleaved
\* A call of move or create as the sequence of its store calls: every await
\* of a FolderModel query is a point where the other call may run.
InFlight(s) == requests.calls[s].pc \notin {"idle", "done"}

\* A finished call keeps its operation and outcome.
Done(r, err) == [Idle EXCEPT !.op = r.op, !.pc = "done", !.err = err]

SetCall(s, r, wrote) ==
    /\ UNCHANGED poolVars
    /\ requests' = [calls |-> [requests.calls EXCEPT ![s] = r],
                    raced |-> \/ requests.raced
                              \/ wrote /\ \E t \in Slots \ {s} : InFlight(t),
                    served |-> IF InFlight(s) THEN requests.served
                               ELSE requests.served + 1]

Continue(s, r) == SetCall(s, r, FALSE) /\ UNCHANGED last

Finish(s, r, err, wrote) ==
    /\ SetCall(s, Done(r, err), wrote)
    /\ last' = [op |-> r.op, err |-> err, id |-> r.id]

\* move: the call starts and loads the folder.
MoveFindFolder(s, id, o, newParentId) ==
    /\ ~InFlight(s)
    /\ LET r == [Idle EXCEPT !.op = "moveFolder", !.id = id, !.ownerId = o,
                             !.parentId = newParentId]
       IN  IF ~ActiveFolder(folders, id, o) THEN Finish(s, r, NOT_FOUND, FALSE)
           ELSE IF folders[id].parentId = newParentId THEN Finish(s, r, OK, FALSE)
           ELSE Continue(s, [r EXCEPT !.doc = folders[id],
                                      !.pc = IF newParentId # NULL
                                             THEN "moveFindTarget"
                                             ELSE "moveCheckName"])
    /\ UNCHANGED <<folders, nextFolderId, docs, nextDocId>>

\* move: loads the target parent and tests it against the folder's path.
MoveFindTarget(s) ==
    /\ requests.calls[s].pc = "moveFindTarget"
    /\ LET r == requests.calls[s]
       IN  IF ~ActiveFolder(folders, r.parentId, r.ownerId)
           THEN Finish(s, r, NOT_FOUND, FALSE)
           ELSE IF TargetIsDescendant(r.doc.path, folders[r.parentId].path)
           THEN Finish(s, r, FOLDER_MOVE_INTO_SELF, FALSE)
           ELSE Continue(s, [r EXCEPT !.pc = "moveCheckName"])
    /\ UNCHANGED <<folders, nextFolderId, docs, nextDocId>>

MoveCheckName(s) ==
    /\ requests.calls[s].pc = "moveCheckName"
    /\ LET r == requests.calls[s]
       IN  IF checkUniqueName(folders, r.ownerId, r.parentId, r.doc.name, r.id)
           THEN Finish(s, r, FOLDER_NAME_EXISTS, FALSE)
           ELSE Continue(s, [r EXCEPT !.pc = "moveGeneratePath"])
    /\ UNCHANGED <<folders, nextFolderId, docs, nextDocId>>

MoveGeneratePath(s) ==
    /\ requests.calls[s].pc = "moveGeneratePath"
    /\ LET r == requests.calls[s]
           gp == generatePath(folders, r.ownerId, r.parentId, r.doc.name)
       IN  IF gp.err # OK THEN Finish(s, r, gp.err, FALSE)
           ELSE Continue(s, [r EXCEPT !.path = gp.path, !.depth = gp.depth,
                                      !.pc = "moveMaxDepth"])
    /\ UNCHANGED <<folders, nextFolderId, docs, nextDocId>>

\* move: getMaxDescendantDepth on the document loaded at the start.
MoveMaxDepth(s) ==
    /\ requests.calls[s].pc = "moveMaxDepth"
    /\ LET r == requests.calls[s]
           below == PathDescendants(folders, r.doc.ownerId, r.doc.path)
           maxDescendantDepth == IF below = {} THEN r.doc.depth
                                 ELSE MaxOf({ folders[g].depth : g \in below })
       IN  IF maxDescendantDepth + (r.depth - r.doc.depth) > MAX_FOLDER_DEPTH
           THEN Finish(s, r, FOLDER_MAX_DEPTH_EXCEEDED, FALSE)
           ELSE Continue(s, [r EXCEPT !.pc = "moveUpdateOne"])
    /\ UNCHANGED <<folders, nextFolderId, docs, nextDocId>>

\* move: FolderModel.updateOne({_id: id}, {$set: {parentId, path, depth}})
MoveUpdateOne(s) ==
    /\ requests.calls[s].pc = "moveUpdateOne"
    /\ LET r == requests.calls[s]
       IN  IF r.id \notin Ids(folders)
           THEN /\ Continue(s, [r EXCEPT !.pc = "moveUpdateMany"])
                /\ UNCHANGED folders
           ELSE IF UniqueIndexViolated(folders, r.id, folders[r.id].ownerId,
                                       r.parentId, folders[r.id].name)
           THEN /\ Finish(s, r, DUPLICATE_KEY, FALSE)
                /\ UNCHANGED folders
           ELSE /\ folders' = [folders EXCEPT ![r.id].parentId = r.parentId,
                                              ![r.id].path = r.path,
                                              ![r.id].depth = r.depth]
                /\ SetCall(s, [r EXCEPT !.pc = "moveUpdateMany"], TRUE)
                /\ UNCHANGED last
    /\ UNCHANGED <<nextFolderId, docs, nextDocId>>

\* move: the bulk update of the descendants, from the old path loaded at
\* the start to the new path computed before the first write.
MoveUpdateMany(s) ==
    /\ requests.calls[s].pc = "moveUpdateMany"
    /\ LET r == requests.calls[s]
       IN  /\ folders' = CascadePaths(folders, r.ownerId, r.doc.path, r.path,
                                      r.depth - r.doc.depth)
           /\ Finish(s, r, OK, TRUE)
    /\ UNCHANGED <<nextFolderId, docs, nextDocId>>

\* create: the call starts and looks for a sibling of that name.
CreateCheckName(s, o, name, parentId) ==
    /\ ~InFlight(s)
    /\ LET r == [Idle EXCEPT !.op = "createFolder", !.ownerId = o, !.name = name,
                             !.parentId = parentId]
       IN  IF checkUniqueName(folders, o, parentId, name, NULL)
           THEN Finish(s, r, FOLDER_NAME_EXISTS, FALSE)
           ELSE Continue(s, [r EXCEPT !.pc = "createGeneratePath"])
    /\ UNCHANGED <<folders, nextFolderId, docs, nextDocId>>

CreateGeneratePath(s) ==
    /\ requests.calls[s].pc = "createGeneratePath"
    /\ LET r == requests.calls[s]
           gp == generatePath(folders, r.ownerId, r.parentId, r.name)
       IN  IF gp.err # OK THEN Finish(s, r, gp.err, FALSE)
           ELSE Continue(s, [r EXCEPT !.path = gp.path, !.depth = gp.depth,
                                      !.pc = "createInsert"])
    /\ UNCHANGED <<folders, nextFolderId, docs, nextDocId>>

\* create: FolderModel.create with the path and depth computed before.
CreateInsert(s) ==
    /\ requests.calls[s].pc = "createInsert"
    /\ LET r == requests.calls[s]
       IN  IF ~SchemaValid(r.name, r.depth)
           THEN /\ Finish(s, r, SCHEMA_VALIDATION, FALSE)
                /\ UNCHANGED <<folders, nextFolderId>>
           ELSE IF UniqueIndexViolated(folders, nextFolderId, r.ownerId,
                                       r.parentId, r.name)
           THEN /\ Finish(s, r, DUPLICATE_KEY, FALSE)
                /\ UNCHANGED <<folders, nextFolderId>>
           ELSE /\ folders' = Put(folders, nextFolderId,
                                  [name |-> r.name, parentId |-> r.parentId,
                                   ownerId |-> r.ownerId, path |-> r.path,
                                   depth |-> r.depth, isDeleted |-> FALSE,
                                   deletedAt |-> NULL])
                /\ nextFolderId' = nextFolderId + 1
                /\ Finish(s, [r EXCEPT !.id = nextFolderId], OK, TRUE)
    /\ UNCHANGED <<docs, nextDocId>>

\* ------------------------------------------------------ PdfWorkerPool
\* A worker thread is starting (not yet 'ready'), idle, working on a task,
\* failed (it raised 'error' and is about to exit), terminated (terminate()
\* was called and 'exit' is about to be emitted) or exited.  origin is the
\* caller of createWorker; cancelled and rejectTask hold what the
\* cancelProcessingJob call suspended at "await terminate()" does next.
NewThread(origin) ==
    [state |-> "starting", task |-> NULL, origin |-> origin,
     cancelled |-> FALSE, rejectTask |-> NULL]

\* new Worker(...): one more thread, numbered in order of creation.
Spawn(th, origin) == Put(th, Cardinality(DOMAIN th) + 1, NewThread(origin))

\* this.workers.find(w => !w.busy), as an index (0: none)
IndexOfAvailable(ws) ==
    IF \E i \in 1..Len(ws) : ~ws[i].busy
    THEN CHOOSE i \in 1..Len(ws) : ~ws[i].busy /\ \A j \in 1..(i - 1) : ws[j].busy
    ELSE 0

\* this.workers.indexOf(poolWorker), as an index (0: not in the array)
IndexOfWorker(ws, w) ==
    IF \E i \in 1..Len(ws) : ws[i].id = w
    THEN CHOOSE i \in 1..Len(ws) : ws[i].id = w
    ELSE 0

\* splice(i, 1); nothing is removed for i = 0
RemoveAt(q, i) ==
    IF i = 0 THEN q ELSE SubSeq(q, 1, i - 1) \o SubSeq(q, i + 1, Len(q))

IndexOfTask(q, t) ==
    IF \E i \in 1..Len(q) : q[i] = t THEN CHOOSE i \in 1..Len(q) : q[i] = t ELSE 0

\* worker.postMessage(message): a running thread takes the task; a thread
\* that has failed, was terminated or has exited never reads it.
postMessage(th, w, t) ==
    IF th[w].state = "idle"
    THEN [th EXCEPT ![w].state = "working", ![w].task = t]
    ELSE th

\* poolWorker.busy = false; poolWorker.currentTaskId = undefined
Release(ws, w) ==
    [i \in 1..Len(ws) |->
        IF ws[i].id = w THEN [ws[i] EXCEPT !.busy = FALSE, !.currentTaskId = NULL]
        ELSE ws[i]]

processQueue(p, th) ==
    IF p.taskQueue = <<>> \/ IndexOfAvailable(p.workers) = 0
    THEN [pool |-> p, threads |-> th]
    ELSE LET i == IndexOfAvailable(p.workers)
             t == Head(p.taskQueue)
         IN  [pool |-> [p EXCEPT !.taskQueue = Tail(@),
                                 !.jobs[t] = "processing",
                                 !.workers[i].busy = TRUE,
                                 !.workers[i].currentTaskId = t,
                                 !.pendingTasks = @ \cup {t}],
              threads |-> postMessage(th, p.workers[i].id, t)]

\* initialize(): createWorker() poolSize times.
Initialize ==
    /\ DOMAIN threads = {}
    /\ threads' = [w \in 1..PoolSize |-> NewThread("initialize")]
    /\ UNCHANGED <<pool, promises, storeVars, raceVars>>

Initialized ==
    /\ DOMAIN threads # {}
    /\ \A w \in DOMAIN threads :
          threads[w].origin = "initialize" => threads[w].state # "starting"

\* createWorker's onReady: the worker joins the pool; the createWorker
\* awaited by cancelProcessingJob is followed by processQueue().
WorkerReady(w) ==
    /\ w \in DOMAIN threads /\ threads[w].state = "starting"
    /\ LET p == [pool EXCEPT !.workers =
                    Append(@, [id |-> w, busy |-> FALSE, currentTaskId |-> NULL])]
           th == [threads EXCEPT ![w].state = "idle"]
           r == IF threads[w].origin = "cancel" THEN processQueue(p, th)
                ELSE [pool |-> p, threads |-> th]
       IN  pool' = r.pool /\ threads' = r.threads
    /\ UNCHANGED <<promises, storeVars, raceVars>>

\* split / getInfo: generateTaskId, createJob, execute.
Submit ==
    /\ Initialized
    /\ pool.taskIdCounter < MaxTasks
    /\ LET t == pool.taskIdCounter + 1
           p == [pool EXCEPT !.taskIdCounter = t,
                             !.jobs = Put(@, t, "queued"),
                             !.taskToJob = @ \cup {t}]
           i == IndexOfAvailable(p.workers)
       IN  IF p.isShuttingDown
           THEN /\ pool' = p
                /\ threads' = threads
                /\ promises' = Put(promises, t, "rejected")
           ELSE IF i # 0
           THEN /\ pool' = [p EXCEPT !.jobs[t] = "processing",
                                     !.workers[i].busy = TRUE,
                                     !.workers[i].currentTaskId = t,
                                     !.pendingTasks = @ \cup {t}]
                /\ threads' = postMessage(threads, p.workers[i].id, t)
                /\ promises' = Put(promises, t, "pending")
           ELSE /\ pool' = [p EXCEPT !.taskQueue = Append(@, t)]
                /\ threads' = threads
                /\ promises' = Put(promises, t, "pending")
    /\ UNCHANGED <<storeVars, raceVars>>

\* The worker posts its response (a result or an error response) and the
\* 'message' handler runs.
WorkerResponds(w, type) ==
    /\ w \in DOMAIN threads /\ threads[w].state = "working"
    /\ LET t == threads[w].task
           th == [threads EXCEPT ![w].state = "idle", ![w].task = NULL]
           p == IF t \in pool.pendingTasks
                THEN [pool EXCEPT
                        !.pendingTasks = @ \ {t},
                        !.workers = Release(@, w),
                        !.jobs = IF t \in pool.taskToJob /\ t \in DOMAIN @
                                 THEN [@ EXCEPT ![t] = IF type = "error" THEN "failed"
                                                       ELSE "completed"]
                                 ELSE @,
                        !.taskToJob = @ \ {t}]
                ELSE pool
           r == processQueue(p, th)
       IN  /\ pool' = r.pool
           /\ threads' = r.threads
           /\ promises' = IF t \in pool.pendingTasks
                          THEN [promises EXCEPT ![t] = "resolved"]
                          ELSE promises
    /\ UNCHANGED <<storeVars, raceVars>>

\* The worker raises 'error' while it runs a task and the 'error' handler
\* runs; the thread exits next.
WorkerError(w) ==
    /\ w \in DOMAIN threads /\ threads[w].state = "working"
    /\ LET i == IndexOfWorker(pool.workers, w)
           t == IF i = 0 THEN NULL ELSE pool.workers[i].currentTaskId
           th == [threads EXCEPT ![w].state = "failed", ![w].task = NULL]
           p == [pool EXCEPT
                   !.jobs = IF t # NULL /\ t \in pool.taskToJob /\ t \in DOMAIN @
                            THEN [@ EXCEPT ![t] = "failed"]
                            ELSE @,
                   !.workers = Release(@, w)]
           r == processQueue(p, th)
       IN  pool' = r.pool /\ threads' = r.threads
    /\ UNCHANGED <<promises, storeVars, raceVars>>

\* The thread is gone and 'exit' is emitted with a non-zero code: the 'exit'
\* handler runs, then the cancelProcessingJob call that awaited terminate()
\* goes on (reject the task, createWorker).
WorkerExit(w) ==
    /\ w \in DOMAIN threads /\ threads[w].state \in {"failed", "terminated"}
    /\ LET gone == [threads EXCEPT ![w].state = "exited"]
           handled == ~pool.isShuttingDown
           th1 == IF handled THEN Spawn(gone, "exit") ELSE gone
           th2 == IF threads[w].cancelled THEN Spawn(th1, "cancel") ELSE th1
           t == threads[w].rejectTask
       IN  /\ threads' = th2
           /\ pool' = IF handled
                      THEN [pool EXCEPT !.workers =
                               RemoveAt(@, IndexOfWorker(@, w))]
                      ELSE pool
           /\ promises' = IF threads[w].cancelled /\ t # NULL
                          THEN [promises EXCEPT ![t] = "rejected"]
                          ELSE promises
    /\ UNCHANGED <<storeVars, raceVars>>

\* cancelJob on a job with status 'queued': cancelQueuedJob.
CancelQueuedJob(j) ==
    /\ j \in DOMAIN pool.jobs /\ pool.jobs[j] = "queued"
    /\ IndexOfTask(pool.taskQueue, j) # 0
    /\ pool' = [pool EXCEPT !.taskQueue = RemoveAt(@, IndexOfTask(@, j)),
                            !.jobs[j] = "cancelled",
                            !.taskToJob = @ \ {j}]
    /\ promises' = [promises EXCEPT ![j] = "rejected"]
    /\ UNCHANGED <<threads, storeVars, raceVars>>

\* cancelJob on a job with status 'processing': cancelProcessingJob up to
\* "await poolWorker.worker.terminate()".
CancelProcessingJob(j) ==
    /\ j \in DOMAIN pool.jobs /\ pool.jobs[j] = "processing"
    /\ \E i \in 1..Len(pool.workers) : pool.workers[i].currentTaskId = j
    /\ LET i == CHOOSE k \in 1..Len(pool.workers) :
                    /\ pool.workers[k].currentTaskId = j
                    /\ \A m \in 1..(k - 1) : pool.workers[m].currentTaskId # j
           w == pool.workers[i].id
       IN  /\ pool' = [pool EXCEPT !.jobs[j] = "cancelled",
                                   !.pendingTasks = @ \ {j},
                                   !.taskToJob = @ \ {j},
                                   !.workers = RemoveAt(@, i)]
           /\ threads' = [threads EXCEPT
                 ![w].state = IF @ \in {"idle", "working", "starting"}
                              THEN "terminated" ELSE @,
                 ![w].task = NULL,
                 ![w].cancelled = TRUE,
                 ![w].rejectTask = IF j \in pool.pendingTasks THEN j ELSE NULL]
    /\ UNCHANGED <<promises, storeVars, raceVars>>

\* shutdown(): the queued tasks are rejected, every worker is terminated.
Shutdown ==
    /\ Initialized
    /\ ~pool.isShuttingDown
    /\ LET queued == { pool.taskQueue[i] : i \in 1..Len(pool.taskQueue) }
           inPool == { pool.workers[i].id : i \in 1..Len(pool.workers) }
       IN  /\ pool' = [pool EXCEPT
                 !.isShuttingDown = TRUE,
                 !.jobs = [j \in DOMAIN @ |-> IF j \in queued THEN "cancelled" ELSE @[j]],
                 !.taskQueue = <<>>,
                 !.workers = <<>>]
           /\ promises' = [t \in DOMAIN promises |->
                             IF t \in queued THEN "rejected" ELSE promises[t]]
           /\ threads' = [w \in DOMAIN threads |->
                            IF w \in inPool /\ threads[w].state \in {"idle", "working"}
                            THEN [threads[w] EXCEPT !.state = "terminated", !.task = NULL]
                            ELSE threads[w]]
    /\ UNCHANGED <<storeVars, raceVars>>

\* The bounds of the exploration, as guards on the requests issued.
CanCreateFolder == nextFolderId <= MaxFolders
WithinDepthCap == \A g \in DOMAIN folders' : folders'[g].depth <= DepthCap

\* Spec: the folder tree engine; every request of one owner, names that
\* differ by case, every target (the folder itself included).
Next ==
    \/ \E o \in TreeOwners, n \in CaseNames, p \in {NULL} \cup KnownFolderIds :
          CanCreateFolder /\ CreateFolder(o, n, p)
    \/ \E id \in KnownFolderIds, o \in TreeOwners, n \in CaseNames : RenameFolder(id, o, n)
    \/ \E id \in KnownFolderIds, o \in TreeOwners, p \in {NULL} \cup KnownFolderIds :
          MoveFolder(id, o, p) /\ WithinDepthCap
    \/ \E id \in KnownFolderIds, o \in TreeOwners : SoftDeleteFolder(id, o)
    \/ \E id \in KnownFolderIds, o \in TreeOwners : RestoreFolder(id, o)
    \/ \E id \in KnownFolderIds, o \in TreeOwners : PermanentDeleteFolder(id, o)

Spec == Init /\ [][Next]_vars

\* SpecNames: the same engine with names that hold a metacharacter and a
\* string prefix of one another; moves name another folder or the root.
NextNames ==
    \/ \E o \in TreeOwners, n \in RegexNames, p \in {NULL} \cup KnownFolderIds :
          CanCreateFolder /\ CreateFolder(o, n, p)
    \/ \E id \in KnownFolderIds, o \in TreeOwners, n \in RegexNames : RenameFolder(id, o, n)
    \/ \E id \in KnownFolderIds, o \in TreeOwners :
          \E p \in ({NULL} \cup KnownFolderIds) \ {id} : MoveFolder(id, o, p)
    \/ \E id \in KnownFolderIds, o \in TreeOwners : SoftDeleteFolder(id, o)
    \/ \E id \in KnownFolderIds, o \in TreeOwners : RestoreFolder(id, o)
    \/ \E id \in KnownFolderIds, o \in TreeOwners : PermanentDeleteFolder(id, o)

SpecNames == Init /\ [][NextNames]_vars

\* SpecChain: one owner nests folders, each new one under the one created
\* last, and renames the root of the chain.
ChainOwner == "u1"
ChainName == <<"a">>
ChainTip == nextFolderId - 1

ChainCreate == CreateFolder(ChainOwner, ChainName, ChainTip)

NextChain ==
    \/ ChainCreate
    \/ \E n \in CaseNames : nextFolderId > 1 /\ RenameFolder(1, ChainOwner, n)

SpecChain == Init /\ [][NextChain]_vars

\* SpecDeep: the chain again, with moves of the folders near the depth limit.
NearLimit(id) ==
    id \in DOMAIN folders /\ folders[id].depth >= MAX_FOLDER_DEPTH - DeepWindow

NextDeep ==
    \/ ChainCreate
    \/ \E id \in KnownFolderIds, p \in {NULL} \cup KnownFolderIds :
          /\ NearLimit(id)
          /\ (p # NULL => NearLimit(p))
          /\ MoveFolder(id, ChainOwner, p)
    \/ \E n \in CaseNames : nextFolderId > 1 /\ RenameFolder(1, ChainOwner, n)

SpecDeep == Init /\ [][NextDeep]_vars

\* SpecDocs: documents of two owners over a folder tree without rename/move.
NextDocs ==
    \/ \E o \in Owners, p \in {NULL} \cup KnownFolderIds :
          CanCreateFolder /\ CreateFolder(o, ChainName, p)
    \/ \E id \in KnownFolderIds, o \in Owners : SoftDeleteFolder(id, o)
    \/ \E id \in KnownFolderIds, o \in Owners : RestoreFolder(id, o)
    \/ \E id \in KnownFolderIds, o \in Owners : PermanentDeleteFolder(id, o)
    \/ \E o \in Owners, f \in {NULL} \cup KnownFolderIds :
          nextDocId <= MaxDocs /\ UploadDocument(o, f)
    \/ \E id \in KnownDocIds, o \in Owners, f \in {NULL} \cup KnownFolderIds :
          MoveDocument(id, o, f)
    \/ \E id \in KnownDocIds, o \in Owners : SoftDeleteDocument(id, o)
    \/ \E id \in KnownDocIds, o \in Owners, rf \in BOOLEAN :
          RestoreDocument(id, o, rf) /\ nextFolderId' <= MaxFolders + 1

SpecDocs == Init /\ [][NextDocs]_vars

\* SpecTrash: one owner's folders and documents through soft delete, restore
\* and permanent delete; a document is filed at upload, and a document
\* restore may recreate a chain of folders.
NextTrash ==
    \/ \E p \in {NULL} \cup KnownFolderIds :
          CanCreateFolder /\ CreateFolder(ChainOwner, ChainName, p)
    \/ \E id \in KnownFolderIds : SoftDeleteFolder(id, ChainOwner)
    \/ \E id \in KnownFolderIds : RestoreFolder(id, ChainOwner)
    \/ \E id \in KnownFolderIds : PermanentDeleteFolder(id, ChainOwner)
    \/ \E f \in {NULL} \cup KnownFolderIds :
          nextDocId <= MaxDocs /\ UploadDocument(ChainOwner, f)
    \/ \E id \in KnownDocIds : SoftDeleteDocument(id, ChainOwner)
    \/ \E id \in KnownDocIds, rf \in BOOLEAN :
          RestoreDocument(id, ChainOwner, rf) /\ nextFolderId' <= MaxFolders + 3

SpecTrash == Init /\ [][NextTrash]_vars

\* SpecFiled: as SpecTrash, with every document uploaded into the owner's
\* first folder, the root folder at path "/" + ChainName.
FiledFolder == 1

NextFiled ==
    \/ \E p \in {NULL} \cup KnownFolderIds :
          CanCreateFolder /\ CreateFolder(ChainOwner, ChainName, p)
    \/ \E id \in KnownFolderIds : SoftDeleteFolder(id, ChainOwner)
    \/ \E id \in KnownFolderIds : RestoreFolder(id, ChainOwner)
    \/ \E id \in KnownFolderIds : PermanentDeleteFolder(id, ChainOwner)
    \/ /\ nextDocId <= MaxDocs
       /\ FiledFolder \in DOMAIN folders
       /\ UploadDocument(ChainOwner, FiledFolder)
    \/ \E id \in KnownDocIds : SoftDeleteDocument(id, ChainOwner)
    \/ \E id \in KnownDocIds, rf \in BOOLEAN :
          RestoreDocument(id, ChainOwner, rf) /\ nextFolderId' <= MaxFolders + 3

SpecFiled == Init /\ [][NextFiled]_vars

\* SpecLimit: one owner builds a chain of folders up to DeepWindow levels
\* below the depth limit, then creates folders at the end of the
\* chain and moves them under one another (never under themselves).
SideName == <<"b">>
LimitNames == { ChainName, SideName }
LimitBase == MAX_FOLDER_DEPTH - DeepWindow + 1
LimitFolders == LimitBase + MaxFolders + 1

NextLimit ==
    \/ nextFolderId <= LimitBase /\ ChainCreate
    \/ \E n \in LimitNames, p \in KnownFolderIds :
          /\ nextFolderId > LimitBase /\ nextFolderId <= LimitFolders
          /\ NearLimit(p)
          /\ CreateFolder(ChainOwner, n, p)
    \/ \E id \in KnownFolderIds :
          \E p \in KnownFolderIds \ {id} :
             /\ NearLimit(id)
             /\ NearLimit(p)
             /\ MoveFolder(id, ChainOwner, p)

SpecLimit == Init /\ [][NextLimit]_vars

\* SpecRecreate: one owner's folders with moves of a folder under itself
\* and permanent deletes, and documents filed in existing folders,
\* soft-deleted and restored.
NextRecreate ==
    \/ \E p \in {NULL} \cup KnownFolderIds :
          nextFolderId <= MaxFolders + 1 /\ CreateFolder(ChainOwner, ChainName, p)
    \/ \E id \in KnownFolderIds : MoveFolder(id, ChainOwner, id) /\ WithinDepthCap
    \/ \E id \in KnownFolderIds : PermanentDeleteFolder(id, ChainOwner)
    \/ \E f \in DOMAIN folders :
          nextDocId <= MaxDocs /\ UploadDocument(ChainOwner, f)
    \/ \E id \in KnownDocIds : SoftDeleteDocument(id, ChainOwner)
    \/ \E id \in KnownDocIds, rf \in BOOLEAN :
          RestoreDocument(id, ChainOwner, rf) /\ nextFolderId' <= MaxFolders + 3

SpecRecreate == Init /\ [][NextRecreate]_vars

\* SpecRace: MaxCalls calls of one owner, two in flight at a time and
\* interleaved at their store calls: creates and moves (never under the
\* folder itself).
CreatesInFlight ==
    Cardinality({ s \in Slots : InFlight(s) /\ requests.calls[s].op = "createFolder" })

MaxCalls == MaxFolders + 2

NextRace ==
    \/ \E s \in Slots, id \in KnownFolderIds :
          \E p \in ({NULL} \cup KnownFolderIds) \ {id} :
             requests.served < MaxCalls /\ MoveFindFolder(s, id, ChainOwner, p)
    \/ \E s \in Slots : MoveFindTarget(s)
    \/ \E s \in Slots : MoveCheckName(s)
    \/ \E s \in Slots : MoveGeneratePath(s)
    \/ \E s \in Slots : MoveMaxDepth(s)
    \/ \E s \in Slots : MoveUpdateOne(s)
    \/ \E s \in Slots : MoveUpdateMany(s)
    \/ \E s \in Slots, n \in LimitNames, p \in {NULL} \cup KnownFolderIds :
          /\ requests.served < MaxCalls
          /\ nextFolderId + CreatesInFlight <= MaxFolders + 1
          /\ CreateCheckName(s, ChainOwner, n, p)
    \/ \E s \in Slots : CreateGeneratePath(s)
    \/ \E s \in Slots : CreateInsert(s)

SpecRace == Init /\ [][NextRace]_vars

\* SpecPool: the PDF worker pool from initialize() on: tasks are submitted,
\* answered, cancelled; a worker may raise 'error'; the pool may be shut
\* down.  A thread that can become ready, answer or exit does so eventually.
NextPool ==
    \/ Initialize
    \/ \E w \in DOMAIN threads : WorkerReady(w)
    \/ Submit
    \/ \E w \in DOMAIN threads, type \in {"result", "error"} : WorkerResponds(w, type)
    \/ \E w \in DOMAIN threads : WorkerError(w)
    \/ \E w \in DOMAIN threads : WorkerExit(w)
    \/ \E j \in DOMAIN pool.jobs : CancelQueuedJob(j)
    \/ \E j \in DOMAIN pool.jobs : CancelProcessingJob(j)
    \/ Shutdown

SpecPool ==
    /\ Init
    /\ [][NextPool]_vars
    /\ WF_vars(\E w \in DOMAIN threads : WorkerReady(w))
    /\ WF_vars(\E w \in DOMAIN threads, type \in {"result", "error"} :
                  WorkerResponds(w, type))
    /\ WF_vars(\E w \in DOMAIN threads : WorkerExit(w))

\* ------------------------------------------------------------ properties
HasParent(g) == folders[g].parentId # NULL

ParentExists(g) ==
    /\ folders[g].parentId \in DOMAIN folders
    /\ folders[folders[g].parentId].ownerId = folders[g].ownerId

Parent(g) == folders[folders[g].parentId]

\* C1: every folder record, deleted or not, has path = parent's path + "/"
\* + name when it has a parent, and "/" + name when it has none.
C1_PathDerivedFromParent ==
    \A g \in DOMAIN folders :
        IF HasParent(g)
        THEN /\ folders[g].parentId \in DOMAIN folders
             /\ folders[g].path = Parent(g).path \o <<Slash>> \o folders[g].name
        ELSE folders[g].path = <<Slash>> \o folders[g].name

\* C2: every folder record has depth 0 when it has no parent, and otherwise
\* its parent exists, has the same owner, and depth = parent's depth + 1.
C2_DepthDerivedFromParent ==
    \A g \in DOMAIN folders :
        IF HasParent(g)
        THEN ParentExists(g) /\ folders[g].depth = Parent(g).depth + 1
        ELSE folders[g].depth = 0

\* The folders met by following the parentId links from g, g included, for
\* at most n steps; the walk stops at a root or at a missing parent.
RECURSIVE Ancestry(_, _)
Ancestry(g, n) ==
    IF n = 0 \/ g = NULL \/ g \notin DOMAIN folders THEN <<>>
    ELSE <<g>> \o Ancestry(folders[g].parentId, n - 1)

\* C3: a move of a folder into itself or into a descendant is refused, so
\* the parentId links from any folder reach a root without revisiting a
\* folder.
C3_ParentLinksAcyclic ==
    \A g \in DOMAIN folders :
        LET walk == Ancestry(g, Cardinality(DOMAIN folders) + 1)
        IN  /\ Len(walk) <= Cardinality(DOMAIN folders)
            /\ \A i, j \in 1..Len(walk) : i # j => walk[i] # walk[j]

LowerName(n) == [i \in 1..Len(n) |-> ToLower(n[i])]

\* An active folder P of owner o lies below F by materialized path.
IsPathDescendant(p, id, o) ==
    /\ ActiveFolder(folders, id, o)
    /\ ActiveFolder(folders, p, o)
    /\ StartsWith(folders[p].path, folders[id].path \o <<Slash>>)

\* C4: moving folder F under a non-deleted folder whose path starts with
\* F.path + "/" fails with FOLDER_MOVE_INTO_SELF and leaves every folder
\* and document record as it was.
C4_MoveUnderDescendantFails ==
    [][\A id \in KnownFolderIds, p \in KnownFolderIds, o \in Owners :
          (/\ last'.op = "moveFolder" /\ last'.id = id
           /\ IsPathDescendant(p, id, o)
           /\ MoveFolder(id, o, p))
              => /\ last'.err = FOLDER_MOVE_INTO_SELF
                 /\ folders' = folders
                 /\ docs' = docs]_vars

\* What the claim C5 says the folders are after a successful move of F
\* under P (NULL = root).
MovedTree(id, newParentId) ==
    LET oldPath == folders[id].path
        oldDepth == folders[id].depth
        newPath == IF newParentId = NULL THEN <<Slash>> \o folders[id].name
                   ELSE folders[newParentId].path \o <<Slash>> \o folders[id].name
        newDepth == IF newParentId = NULL THEN 0 ELSE folders[newParentId].depth + 1
    IN  [g \in DOMAIN folders |->
            IF g = id
            THEN [folders[g] EXCEPT !.parentId = newParentId, !.path = newPath,
                                    !.depth = newDepth]
            ELSE IF /\ folders[g].ownerId = folders[id].ownerId
                    /\ StartsWith(folders[g].path, oldPath \o <<Slash>>)
            THEN [folders[g] EXCEPT
                     !.path = newPath \o SubSeq(folders[g].path, Len(oldPath) + 1,
                                                Len(folders[g].path)),
                     !.depth = folders[g].depth + (newDepth - oldDepth)]
            ELSE folders[g]]

\* C5: a successful move of F to P sets F's parentId, path and depth from
\* P, shifts every folder whose path started with F's old path + "/" by the
\* same prefix replacement and depth delta, and changes no other folder.
C5_MoveRewritesSubtree ==
    [][\A id \in KnownFolderIds, p \in {NULL} \cup KnownFolderIds, o \in Owners :
          (/\ last' = [op |-> "moveFolder", err |-> OK, id |-> id]
           /\ MoveFolder(id, o, p))
              => folders' = MovedTree(id, p)]_vars

\* What the claim C6 says the folders are after a successful rename of F.
RenamedTree(id, newName) ==
    LET oldPath == folders[id].path
        newPath == SubSeq(oldPath, 1, LastIndexOfSlash(oldPath) + 1) \o newName
    IN  [g \in DOMAIN folders |->
            IF g = id
            THEN [folders[g] EXCEPT !.name = newName, !.path = newPath]
            ELSE IF /\ folders[g].ownerId = folders[id].ownerId
                    /\ StartsWith(folders[g].path, oldPath \o <<Slash>>)
            THEN [folders[g] EXCEPT
                     !.path = newPath \o SubSeq(folders[g].path, Len(oldPath) + 1,
                                                Len(folders[g].path))]
            ELSE folders[g]]

\* C6: a successful rename of a non-deleted folder F to N sets F's name and
\* the last segment of its path, replaces the old path prefix in every
\* folder whose path started with the old path + "/" (depth, parentId and
\* name kept), and changes no other folder.
C6_RenameRewritesPaths ==
    [][\A id \in KnownFolderIds, n \in CaseNames \cup RegexNames, o \in Owners :
          (/\ last' = [op |-> "renameFolder", err |-> OK, id |-> id]
           /\ RenameFolder(id, o, n))
              => folders' = RenamedTree(id, n)]_vars

\* A rename went through on a folder that has a child below its new path.
C6_Witness ==
    /\ last.op = "renameFolder" /\ last.err = OK
    /\ last.id \in DOMAIN folders
    /\ folders[last.id].name = <<"a", "+">>
    /\ \E h \in DOMAIN folders :
          /\ folders[h].parentId = last.id
          /\ folders[h].path = folders[last.id].path \o <<Slash>> \o folders[h].name

\* C7: no two distinct non-deleted folders of one owner under the same
\* parent have names that are equal ignoring case.
C7_SiblingNamesUniqueIgnoringCase ==
    \A g, h \in DOMAIN folders :
        (/\ g # h
         /\ ~folders[g].isDeleted /\ ~folders[h].isDeleted
         /\ folders[g].ownerId = folders[h].ownerId
         /\ folders[g].parentId = folders[h].parentId)
            => LowerName(folders[g].name) # LowerName(folders[h].name)

\* C8: when a non-deleted folder named X exists for the owner under P, a
\* create under P with a name that differs from X only by letter case fails
\* with FOLDER_NAME_EXISTS and creates no record.
C8_CreateCaseVariantConflicts ==
    [][\A o \in Owners, n \in CaseNames \cup RegexNames, p \in {NULL} \cup KnownFolderIds :
          (/\ last'.op = "createFolder"
           /\ \E g \in DOMAIN folders :
                 /\ folders[g].ownerId = o /\ folders[g].parentId = p
                 /\ ~folders[g].isDeleted
                 /\ folders[g].name # n
                 /\ LowerName(folders[g].name) = LowerName(n)
           /\ CreateFolder(o, n, p))
              => last'.err = FOLDER_NAME_EXISTS /\ folders' = folders]_vars

\* C9 as stated: in a chain of nested folders the first 50 creates succeed
\* and the 51st fails with FOLDER_MAX_DEPTH_EXCEEDED, creating no record.
C9_ChainFailsAt51st ==
    [][(last'.op = "createFolder" /\ ChainCreate)
          => IF Cardinality(DOMAIN folders) < 50
             THEN last'.err = OK
             ELSE last'.err = FOLDER_MAX_DEPTH_EXCEEDED /\ folders' = folders]_vars

\* C9 amended: the first 51 creates of the chain succeed, the k-th at depth
\* k - 1 under the (k - 1)-th, and the 52nd fails with
\* FOLDER_MAX_DEPTH_EXCEEDED, creating no record.
C9_ChainFailsAt52nd ==
    [][(last'.op = "createFolder" /\ ChainCreate)
          => IF Cardinality(DOMAIN folders) < MAX_FOLDER_DEPTH + 1
             THEN /\ last'.err = OK
                  /\ DOMAIN folders' = DOMAIN folders \cup {nextFolderId}
                  /\ folders'[nextFolderId].parentId = nextFolderId - 1
                  /\ folders'[nextFolderId].depth = nextFolderId - 1
             ELSE last'.err = FOLDER_MAX_DEPTH_EXCEEDED /\ folders' = folders]_vars

\* The 52nd create of the chain was refused: 51 folders, the deepest at 50.
C9_Witness ==
    /\ last.op = "createFolder" /\ last.err = FOLDER_MAX_DEPTH_EXCEEDED
    /\ Cardinality(DOMAIN folders) = MAX_FOLDER_DEPTH + 1
    /\ \E g \in DOMAIN folders : folders[g].depth = MAX_FOLDER_DEPTH

\* C10: every folder record has 0 <= depth <= 50.
C10_DepthWithinLimit ==
    \A g \in DOMAIN folders :
        folders[g].depth >= 0 /\ folders[g].depth <= MAX_FOLDER_DEPTH

\* Folder g lies in the subtree of F as the claims describe it: F itself or
\* a folder of owner o whose path starts with F.path + "/".
InSubtreeOf(g, id, o) ==
    \/ g = id
    \/ /\ folders[g].ownerId = o
       /\ StartsWith(folders[g].path, folders[id].path \o <<Slash>>)

\* C11: a completed softDeleteFolder(F, owner) marks F and every folder of
\* the owner whose path starts with F.path + "/" as deleted, marks every
\* document of the owner in one of those folders as deleted, removes no
\* record, and leaves the folders and documents outside the subtree as
\* they were.
C11_SoftDeleteMarksSubtree ==
    [][\A id \in KnownFolderIds, o \in Owners :
          (/\ last' = [op |-> "softDeleteFolder", err |-> OK, id |-> id]
           /\ SoftDeleteFolder(id, o))
              => /\ DOMAIN folders' = DOMAIN folders
                 /\ DOMAIN docs' = DOMAIN docs
                 /\ \A g \in DOMAIN folders :
                       IF InSubtreeOf(g, id, o)
                       THEN /\ folders'[g].isDeleted
                            /\ [folders'[g] EXCEPT !.isDeleted = FALSE, !.deletedAt = NULL]
                                  = [folders[g] EXCEPT !.isDeleted = FALSE, !.deletedAt = NULL]
                       ELSE folders'[g] = folders[g]
                 /\ \A d \in DOMAIN docs :
                       IF docs[d].folderId \in DOMAIN folders
                          /\ InSubtreeOf(docs[d].folderId, id, o)
                       THEN docs[d].ownerId = o
                               => docs'[d] = [docs[d] EXCEPT !.isDeleted = TRUE]
                       ELSE docs'[d] = docs[d]]_vars

\* A folder soft delete reached a child folder and a document inside it.
C11_Witness ==
    /\ last.op = "softDeleteFolder" /\ last.err = OK
    /\ \E g \in DOMAIN folders, d \in DOMAIN docs :
          /\ last.id \in DOMAIN folders
          /\ folders[g].parentId = last.id
          /\ folders[g].isDeleted
          /\ docs[d].folderId = g
          /\ docs[d].ownerId = folders[g].ownerId
          /\ docs[d].isDeleted
          /\ ~docs[d].deletedFolderInfo.present

\* C12: permanentDeleteFolder(F, owner), F deleted or not, removes exactly F
\* and the owner's folders whose path starts with F.path + "/", sets
\* folderId to null on every document that referenced a removed folder
\* (nothing else of the document changes, no document is removed), and
\* returns the number of folders removed and of documents detached.
C12_PermanentDeleteDetaches ==
    [][\A id \in KnownFolderIds, o \in Owners :
          (/\ last' = [op |-> "permanentDeleteFolder", err |-> OK, id |-> id]
           /\ PermanentDeleteFolder(id, o))
              => LET removed == { g \in DOMAIN folders : InSubtreeOf(g, id, o) }
                     referring == { d \in DOMAIN docs : docs[d].folderId \in removed }
                     result == permanentDelete(folders, docs, id, o)
                 IN  /\ folders' = [g \in DOMAIN folders \ removed |-> folders[g]]
                     /\ DOMAIN docs' = DOMAIN docs
                     /\ \A d \in DOMAIN docs :
                           docs'[d] = IF d \in referring
                                      THEN [docs[d] EXCEPT !.folderId = NULL]
                                      ELSE docs[d]
                     /\ result.foldersDeleted
                           = Cardinality(DOMAIN folders) - Cardinality(DOMAIN folders')
                     /\ result.documentsDeleted
                           = Cardinality({ d \in DOMAIN docs :
                                             docs'[d].folderId # docs[d].folderId })]_vars

\* C13: restoreFolder(F) on a soft-deleted folder whose parentId is set
\* fails with FOLDER_PARENT_DELETED, F staying soft-deleted, whenever the
\* parent is soft-deleted or is no folder of the owner; it succeeds when
\* parentId is null or the parent is a non-deleted folder of the owner.
C13_RestoreNeedsLiveParent ==
    [][\A id \in KnownFolderIds, o \in Owners :
          (/\ last'.op = "restoreFolder" /\ last'.id = id
           /\ id \in DOMAIN folders
           /\ folders[id].ownerId = o
           /\ folders[id].isDeleted
           /\ RestoreFolder(id, o))
              => LET p == folders[id].parentId
                     parentLive == /\ p \in DOMAIN folders
                                   /\ folders[p].ownerId = o
                                   /\ ~folders[p].isDeleted
                 IN  IF p = NULL \/ parentLive
                     THEN last'.err = OK /\ ~folders'[id].isDeleted
                     ELSE /\ last'.err = FOLDER_PARENT_DELETED
                          /\ folders' = folders
                          /\ docs' = docs]_vars

\* A restore of a folder under a soft-deleted parent was refused.
C13_Witness ==
    /\ last.op = "restoreFolder" /\ last.err = FOLDER_PARENT_DELETED
    /\ last.id \in DOMAIN folders
    /\ folders[last.id].isDeleted
    /\ folders[last.id].parentId \in DOMAIN folders
    /\ folders[folders[last.id].parentId].isDeleted

\* C14: a successful restoreFolder(F) sets F's isDeleted to false and its
\* deletedAt to null and changes nothing else: every other folder (the
\* soft-deleted descendants of F included) and every document (those inside
\* F that the folder's soft delete marked included) stay as they were.
C14_RestoreChangesOnlyFolder ==
    [][\A id \in KnownFolderIds, o \in Owners :
          (/\ last' = [op |-> "restoreFolder", err |-> OK, id |-> id]
           /\ RestoreFolder(id, o))
              => /\ folders' = [folders EXCEPT ![id].isDeleted = FALSE,
                                               ![id].deletedAt = NULL]
                 /\ folders[id].isDeleted
                 /\ docs' = docs]_vars

\* A folder was restored while a folder below it and a document inside it,
\* both marked by the folder's soft delete, are still deleted.
C14_Witness ==
    /\ last.op = "restoreFolder" /\ last.err = OK
    /\ last.id \in DOMAIN folders
    /\ ~folders[last.id].isDeleted
    /\ \E g \in DOMAIN folders :
          /\ folders[g].parentId = last.id
          /\ folders[g].isDeleted
    /\ \E d \in DOMAIN docs :
          /\ docs[d].folderId = last.id
          /\ docs[d].isDeleted
          /\ ~docs[d].deletedFolderInfo.present

\* The step is a call that ended with NotFound and changed no record.
RefusedNotFound ==
    /\ last'.err = NOT_FOUND
    /\ folders' = folders
    /\ docs' = docs

\* C15: on a soft-deleted folder rename, move and softDelete fail with
\* NotFound and change nothing; on an active folder restore fails with
\* NotFound and changes nothing; permanentDelete is accepted in both states;
\* after permanentDelete every operation on that folder id fails with
\* NotFound.
C15_FolderLifecycle ==
    [][\A id \in KnownFolderIds, o \in TreeOwners :
          (last'.id = id /\ last'.op # "createFolder")
             => LET exists == id \in DOMAIN folders /\ folders[id].ownerId = o
                    trashed == exists /\ folders[id].isDeleted
                    active == exists /\ ~folders[id].isDeleted
                IN  /\ \A n \in CaseNames \cup RegexNames :
                          (last'.op = "renameFolder" /\ ~active /\ RenameFolder(id, o, n))
                             => RefusedNotFound
                    /\ \A p \in {NULL} \cup KnownFolderIds :
                          (last'.op = "moveFolder" /\ ~active /\ MoveFolder(id, o, p))
                             => RefusedNotFound
                    /\ (last'.op = "softDeleteFolder" /\ ~active /\ SoftDeleteFolder(id, o))
                          => RefusedNotFound
                    /\ (last'.op = "restoreFolder" /\ ~trashed /\ RestoreFolder(id, o))
                          => RefusedNotFound
                    /\ (last'.op = "permanentDeleteFolder" /\ PermanentDeleteFolder(id, o))
                          => IF exists
                             THEN last'.err = OK /\ id \notin DOMAIN folders'
                             ELSE RefusedNotFound]_vars

\* A rename of a soft-deleted folder was refused.
C15_Witness ==
    /\ last.op = "renameFolder" /\ last.err = NOT_FOUND
    /\ last.id \in DOMAIN folders
    /\ folders[last.id].isDeleted

\* C16: softDeleteDocument on a non-deleted document marks it deleted and
\* keeps its folderId; when the folderId names an existing folder,
\* deletedFolderInfo holds that folder's id, name, path and parentId as they
\* are at that moment, and when the folderId is null, deletedFolderInfo is
\* null.
C16_DocSoftDeleteSnapshots ==
    [][\A d \in KnownDocIds, o \in Owners :
          (/\ last' = [op |-> "softDeleteDocument", err |-> OK, id |-> d]
           /\ SoftDeleteDocument(d, o))
              => LET f == docs[d].folderId
                 IN  /\ ~docs[d].isDeleted
                     /\ docs'[d].isDeleted
                     /\ docs'[d].folderId = f
                     /\ f \in DOMAIN folders =>
                           docs'[d].deletedFolderInfo =
                              [present |-> TRUE, folderId |-> f,
                               name |-> folders[f].name, path |-> folders[f].path,
                               parentId |-> folders[f].parentId]
                     /\ f = NULL => ~docs'[d].deletedFolderInfo.present
                     /\ \A e \in DOMAIN docs \ {d} : docs'[e] = docs[e]
                     /\ folders' = folders]_vars

\* A document filed in a nested folder was soft-deleted with a snapshot.
C16_Witness ==
    /\ last.op = "softDeleteDocument" /\ last.err = OK
    /\ last.id \in DOMAIN docs
    /\ docs[last.id].isDeleted
    /\ docs[last.id].deletedFolderInfo.present
    /\ docs[last.id].deletedFolderInfo.parentId # NULL
    /\ docs[last.id].deletedFolderInfo.folderId = docs[last.id].folderId

\* The path made of the first k segments of parts.
RECURSIVE PrefixPath(_, _)
PrefixPath(parts, k) ==
    IF k = 0 THEN <<>> ELSE PrefixPath(parts, k - 1) \o <<Slash>> \o parts[k]

\* The folders of owner o in fs whose path is exactly path.
FoldersAt(fs, o, path) ==
    { g \in DOMAIN fs : fs[g].ownerId = o /\ fs[g].path = path }

C18_RestoreAfterFolderPurge ==
    [][\A d \in KnownDocIds :
          (/\ last' = [op |-> "restoreDocument", err |-> OK, id |-> d]
           /\ last = [op |-> "permanentDeleteFolder", err |-> OK, id |-> FiledFolder]
           /\ docs[d].isDeleted
           /\ ~docs[d].deletedFolderInfo.present
           /\ docs[d].folderId = NULL
           /\ RestoreDocument(d, ChainOwner, TRUE))
              => \E f \in DOMAIN folders' :
                    /\ folders'[f].ownerId = ChainOwner
                    /\ folders'[f].path = <<Slash>> \o ChainName
                    /\ docs'[d].folderId = f]_vars

\* C19: restoreDocument files the document in the folder named by
\* deletedFolderInfo.folderId only if that folder still exists for the owner
\* and is not deleted; with recreateFolder false and the snapshot folder
\* missing or soft-deleted, or with no snapshot and a stored folderId that
\* names no folder of the owner, the document is restored with folderId
\* null.
C19_RestoreReattachesLiveFolder ==
    [][\A d \in KnownDocIds, o \in Owners, rf \in BOOLEAN :
          (/\ last' = [op |-> "restoreDocument", err |-> OK, id |-> d]
           /\ RestoreDocument(d, o, rf))
              => LET info == docs[d].deletedFolderInfo
                     resolves(f) == f \in DOMAIN folders /\ folders[f].ownerId = o
                     snapshotLive == /\ info.present
                                     /\ resolves(info.folderId)
                                     /\ ~folders[info.folderId].isDeleted
                 IN  /\ (info.present /\ docs'[d].folderId = info.folderId)
                           => snapshotLive
                     /\ (info.present /\ ~snapshotLive /\ ~rf)
                           => docs'[d].folderId = NULL
                     /\ (~info.present /\ ~resolves(docs[d].folderId))
                           => docs'[d].folderId = NULL]_vars

\* C20: no operation for one owner copies data out of a folder of another
\* owner: the deletedFolderInfo of a document never is the snapshot of a
\* folder that belongs to a different owner than the document.
C20_NoCrossOwnerSnapshot ==
    \A d \in DOMAIN docs :
        LET info == docs[d].deletedFolderInfo
        IN  (info.present /\ info.folderId \in DOMAIN folders)
               => folders[info.folderId].ownerId = docs[d].ownerId

\* C21: in every reachable state each document's folderId is null or the id
\* of an existing Folder record with the same ownerId as the document.
C21_DocFolderExistsSameOwner ==
    \A d \in DOMAIN docs :
        docs[d].folderId # NULL =>
            /\ docs[d].folderId \in DOMAIN folders
            /\ folders[docs[d].folderId].ownerId = docs[d].ownerId

\* The destination P (NULL = root) of a move of F that the claim C22 is
\* about: F is a non-deleted folder of o, P is not F, not F's current parent
\* and not under F, P is a non-deleted folder of o or the root, and no
\* other folder record of o under P has F's name in any letter case.
FreeDestination(id, o, p) ==
    /\ ActiveFolder(folders, id, o)
    /\ p # id
    /\ p # folders[id].parentId
    /\ p # NULL => /\ ActiveFolder(folders, p, o)
                   /\ ~IsPathDescendant(p, id, o)
    /\ \A g \in DOMAIN folders :
          (g # id /\ folders[g].ownerId = o /\ folders[g].parentId = p)
              => LowerName(folders[g].name) # LowerName(folders[id].name)

\* The largest depth among F and the folders whose path starts with
\* F.path + "/".
DeepestInSubtree(id, o) ==
    MaxOf({ folders[g].depth : g \in { h \in DOMAIN folders : InSubtreeOf(h, id, o) } })

DepthAfterMove(id, o, p) ==
    DeepestInSubtree(id, o)
        + ((IF p = NULL THEN 0 ELSE folders[p].depth + 1) - folders[id].depth)

C23_FolderRecreatedIffCreated ==
    [][\A id \in KnownDocIds, o \in Owners, rf \in BOOLEAN :
          (/\ last' = [op |-> "restoreDocument", err |-> OK, id |-> id]
           /\ RestoreDocument(id, o, rf))
              => /\ ~docs'[id].isDeleted
                 /\ docs'[id].deletedFolderInfo = NoFolderInfo
                 /\ docRestore(folders, nextFolderId, docs, id, o, rf).folderRecreated
                       <=> (DOMAIN folders' # DOMAIN folders)]_vars

\* A restore of document id by o attempts the recreation of the folder
\* chain and a store call inside the recreation fails.
RecreationFails(id, o, rf) ==
    /\ id \in DOMAIN docs /\ docs[id].ownerId = o /\ docs[id].isDeleted
    /\ rf
    /\ docs[id].deletedFolderInfo.present
    /\ ~AnyFolder(folders, docs[id].deletedFolderInfo.folderId, o)
    /\ LET parts == SplitPath(docs[id].deletedFolderInfo.path, <<>>)
       IN  /\ Len(parts) > 0
           /\ RecreateLoop(folders, nextFolderId, o, parts, 1, NULL, <<>>).folder = NULL

\* C24: a restore of a document never fails for the recreation of its
\* folder chain: the only refusal is NotFound, and when a store call inside
\* the recreation fails (a unique-index rejection included) the restore
\* succeeds, the document ends non-deleted with folderId = null and the
\* result reports folderRecreated = false.
C24_RecreationFailureSwallowed ==
    [][\A id \in KnownDocIds, o \in Owners, rf \in BOOLEAN :
          (/\ last'.op = "restoreDocument" /\ last'.id = id
           /\ RestoreDocument(id, o, rf))
              => /\ last'.err \in {OK, NOT_FOUND}
                 /\ RecreationFails(id, o, rf)
                       => /\ last'.err = OK
                          /\ ~docs'[id].isDeleted
                          /\ docs'[id].folderId = NULL
                          /\ ~docRestore(folders, nextFolderId, docs, id, o, rf).folderRecreated]_vars

\* A document restored to the root right after a recreation that stopped on
\* the unique index: a folder of the owner holds the parent and name of the
\* segment that was not created.
C24_Witness ==
    /\ last = [op |-> "restoreDocument", err |-> OK, id |-> 1]
    /\ 1 \in DOMAIN docs /\ ~docs[1].isDeleted /\ docs[1].folderId = NULL
    /\ \E g \in DOMAIN folders :
          /\ folders[g].parentId = g
          /\ FindByPath(folders, ChainOwner, folders[g].path \o <<Slash>> \o folders[g].name) = NULL
          /\ nextFolderId > MaxFolders + 2

\* C25: no two distinct Folder records (deleted or not) of the same owner
\* have the same path.
C25_PathsUniquePerOwner ==
    \A g, h \in DOMAIN folders :
        (g # h /\ folders[g].ownerId = folders[h].ownerId)
            => folders[g].path # folders[h].path

\* C26: every non-deleted folder with a parentId has a parent that exists
\* and is non-deleted.
C26_ActiveFolderHasActiveParent ==
    \A g \in DOMAIN folders :
        (~folders[g].isDeleted /\ HasParent(g))
            => /\ folders[g].parentId \in DOMAIN folders
               /\ ~Parent(g).isDeleted

\* C27: for every non-deleted folder F, getBreadcrumbs(F) terminates and
\* returns F's ancestors from the root-level one to F itself: depth + 1
\* elements, the last one F (so its path is F.path), the first one without
\* a parent, and each element the parent of the next.
C27_BreadcrumbsRootToSelf ==
    \A g \in DOMAIN folders :
        ~folders[g].isDeleted =>
            LET r == getBreadcrumbs(folders, g, folders[g].ownerId)
                n == Len(r.crumbs)
            IN  /\ r.err = OK
                /\ r.terminates
                /\ n = folders[g].depth + 1
                /\ r.crumbs[n] = g
                /\ folders[r.crumbs[1]].parentId = NULL
                /\ \A i \in 1..(n - 1) :
                      folders[r.crumbs[i + 1]].parentId = r.crumbs[i]

\* Some folder's path or depth is not the one derived from its parent.
SomeFolderUnderived ==
    ~(C1_PathDerivedFromParent /\ C2_DepthDerivedFromParent)

NoCallInFlight == \A s \in Slots : ~InFlight(s)

\* C28: cascades are not isolated from concurrent calls.  When no call is
\* in flight and some folder's path or depth is not derived from its
\* parent, a store write of one call fell between two store calls of
\* another: calls run one after the other leave every folder derived, and
\* the interleaving of C28_Witness does not.
C28_UnderivedOnlyAfterInterleaving ==
    (NoCallInFlight /\ SomeFolderUnderived) => requests.raced

\* A move and another call of the same owner (a create or a move) have both
\* completed successfully and some folder's path or depth is not derived
\* from its parent.
C28_Witness ==
    /\ requests.calls[1] = Done([op |-> "moveFolder"], OK)
    /\ requests.calls[2].pc = "done"
    /\ requests.calls[2].err = OK
    /\ requests.calls[2].op \in {"createFolder", "moveFolder"}
    /\ SomeFolderUnderived

\* No thread of the pool is starting or on its way out, and the pool has
\* been initialized and not shut down.
PoolSettled ==
    /\ Initialized
    /\ ~pool.isShuttingDown
    /\ \A w \in DOMAIN threads : threads[w].state \in {"idle", "working", "exited"}

\* C29: once a cancellation and the worker's exit have been handled the
\* pool holds as many workers as before (the configured size, and never
\* more); cancelling a queued job removes it from the queue at once and
\* touches no worker.
C29_CancelKeepsPoolSize ==
    /\ [](PoolSettled => Len(pool.workers) = PoolSize)
    /\ [](Len(pool.workers) <= PoolSize)
    /\ [][\A j \in DOMAIN pool.jobs :
             CancelQueuedJob(j)
                => /\ IndexOfTask(pool'.taskQueue, j) = 0
                   /\ pool'.workers = pool.workers
                   /\ threads' = threads]_vars

BusyWorkers == { i \in 1..Len(pool.workers) : pool.workers[i].busy }

Settled(t) ==
    /\ t \in DOMAIN promises /\ promises[t] \in {"resolved", "rejected"}
    /\ t \in DOMAIN pool.jobs /\ pool.jobs[t] \in {"completed", "failed", "cancelled"}

\* C30: every task submitted eventually has its promise settled and its job
\* in status completed, failed or cancelled, and at all times the number of
\* busy workers equals the number of entries of pendingTasks.
C30_EveryTaskSettles ==
    /\ [](Cardinality(BusyWorkers) = Cardinality(pool.pendingTasks))
    /\ \A t \in 1..MaxTasks : (t \in DOMAIN promises) ~> Settled(t)

====
